---- MODULE Spec2Model ----
(***************************************************************************)
(* Clinician leave portal (app/main.py, app/ai_faq.py).                    *)
(*                                                                         *)
(* The Streamlit script is re-run from the top on every user interaction;  *)
(* each action below is one such run, for one browser session.  Widget     *)
(* values and st.session_state survive between runs of a session, the      *)
(* leave-log spreadsheet and the imported ai_faq module are shared by      *)
(* all sessions of the process.                                            *)
(* A run of a session is not interrupted by a further interaction of the   *)
(* same user; runs of different sessions interleave at the point where     *)
(* log_leave has read the log and has not yet written it.                  *)
(*                                                                         *)
(* Strings are sequences of one-character strings, so that lower(),        *)
(* strip(), sorting and difflib's similarity ratio are computed.           *)
(* Hours and balances are counted in half hours (the step of the hours     *)
(* input), pay rates in eighths of a currency unit and pay in cents: all   *)
(* of these are exact as binary floating point numbers, so the float       *)
(* arithmetic of the code is the integer arithmetic of the model.          *)
(***************************************************************************)
EXTENDS Integers, Sequences, FiniteSets, TLC

-----------------------------------------------------------------------------
(* Characters and the string methods the code uses.                        *)

\* The characters of the model in code point order.
Chars ==
  << " ", "/",
     "A", "B", "C", "D", "E", "F", "G", "H", "I", "J", "K", "L", "M",
     "N", "O", "P", "Q", "R", "S", "T", "U", "V", "W", "X", "Y", "Z",
     "a", "b", "c", "d", "e", "f", "g", "h", "i", "j", "k", "l", "m",
     "n", "o", "p", "q", "r", "s", "t", "u", "v", "w", "x", "y", "z" >>

\* The position of each character in that order.
Ord == [c \in {Chars[i] : i \in 1..Len(Chars)} |-> CHOOSE i \in 1..Len(Chars) : Chars[i] = c]

\* The lower case of each character.
LowerChar ==
  [c \in DOMAIN Ord |-> IF Ord[c] \in (Ord["A"])..(Ord["Z"])
                          THEN Chars[Ord[c] + (Ord["a"] - Ord["A"])]
                          ELSE c]

\* str.lower()
lower(s) == [i \in 1..Len(s) |-> LowerChar[s[i]]]

RECURSIVE lstrip(_)
lstrip(s) == IF s # <<>> /\ Head(s) = " " THEN lstrip(Tail(s)) ELSE s

RECURSIVE rstrip(_)
rstrip(s) ==
  IF s # <<>> /\ s[Len(s)] = " " THEN rstrip(SubSeq(s, 1, Len(s) - 1)) ELSE s

\* str.strip()
strip(s) == rstrip(lstrip(s))

\* s < t in Python's ordering of strings (by code point, a prefix first).
RECURSIVE StrLess(_, _)
StrLess(s, t) ==
  IF t = <<>> THEN FALSE
  ELSE IF s = <<>> THEN TRUE
  ELSE IF Head(s) # Head(t) THEN Ord[Head(s)] < Ord[Head(t)]
  ELSE StrLess(Tail(s), Tail(t))

\* sorted(set of strings)
RECURSIVE sorted(_)
sorted(S) ==
  IF S = {} THEN <<>>
  ELSE LET least(m) == <<m>> \o sorted(S \ {m})
       IN  least(CHOOSE x \in S : \A y \in S \ {x} : StrLess(x, y))

Range(f) == {f[i] : i \in DOMAIN f}

-----------------------------------------------------------------------------
(* difflib.get_close_matches(word, possibilities, n=1, cutoff=0.6).        *)

Min(a, b) == IF a <= b THEN a ELSE b

\* SequenceMatcher.find_longest_match without junk: the longest common
\* block, of those the one starting earliest in a, of those the one starting
\* earliest in b.  <<0, 0, 0>> when a and b share no character.
BetterBlock(x, y) ==
  \/ x[3] > y[3]
  \/ x[3] = y[3] /\ x[1] < y[1]
  \/ x[3] = y[3] /\ x[1] = y[1] /\ x[2] < y[2]

BestBlock(blocks) ==
  IF blocks = {} THEN <<0, 0, 0>>
  ELSE CHOOSE x \in blocks : \A y \in blocks \ {x} : BetterBlock(x, y)

find_longest_match(a, b) ==
  BestBlock({blk \in (1..Len(a)) \X (1..Len(b)) \X (1..Min(Len(a), Len(b))) :
               /\ blk[1] + blk[3] - 1 <= Len(a)
               /\ blk[2] + blk[3] - 1 <= Len(b)
               /\ SubSeq(a, blk[1], blk[1] + blk[3] - 1)
                    = SubSeq(b, blk[2], blk[2] + blk[3] - 1)})

\* The size of the matching blocks around the longest block blk of a and b:
\* blk itself, and the blocks of what lies to its left and to its right.
RECURSIVE blocks_around(_, _, _)

\* The number of matched characters: the sum of the sizes of
\* SequenceMatcher.get_matching_blocks.
matches(a, b) == blocks_around(a, b, find_longest_match(a, b))

blocks_around(a, b, blk) ==
  IF blk[3] = 0 THEN 0
  ELSE blk[3]
       + matches(SubSeq(a, 1, blk[1] - 1), SubSeq(b, 1, blk[2] - 1))
       + matches(SubSeq(a, blk[1] + blk[3], Len(a)), SubSeq(b, blk[2] + blk[3], Len(b)))

\* SequenceMatcher.ratio() = 2.0 * matches / (len(a) + len(b)), 1.0 for two
\* empty strings, as the fraction <<numerator, denominator>>.
ratio(a, b) ==
  IF Len(a) + Len(b) = 0 THEN <<1, 1>> ELSE <<2 * matches(a, b), Len(a) + Len(b)>>

\* ratio >= cutoff, with cutoff = CutoffNum / CutoffDen = 0.6.  The two
\* cheaper tests get_close_matches runs first are upper bounds of ratio().
CutoffNum == 6
CutoffDen == 10
AtLeastCutoff(r) == r[1] * CutoffDen >= CutoffNum * r[2]

\* Python's None: no string.
None == <<"None">>

\* p > q for two (score, string) pairs.
PairGreater(p, q) ==
  \/ p[1][1] * q[1][2] > q[1][1] * p[1][2]
  \/ p[1][1] * q[1][2] = q[1][1] * p[1][2] /\ StrLess(q[2], p[2])

\* heapq.nlargest(1, result), without the scores.
nlargest(result) ==
  IF result = {} THEN <<>>
  ELSE <<(CHOOSE p \in result : \A q \in result \ {p} : PairGreater(p, q))[2]>>

\* get_close_matches with n = 1: the candidate with the largest
\* (score, string) pair among those scoring at least the cutoff.
get_close_matches(word, possibilities) ==
  nlargest({p \in {<<ratio(x, word), x>> : x \in Range(possibilities)} :
              AtLeastCutoff(p[1])})

\* Line 42.
first_or_None(found) == IF found # <<>> THEN found[1] ELSE None

match_name(name, names_list) ==
  first_or_None(
    get_close_matches(strip(lower(name)),
                      [i \in 1..Len(names_list) |-> strip(lower(names_list[i]))]))

-----------------------------------------------------------------------------
(* The two input tables, as load_data returns them: column values          *)
(* stripped, balances and rates numeric.                                   *)

Ann == <<"A", "n", "n">>
Bo == <<"B", "o">>
Sick == <<"S", "i", "c", "k">>
Personal == <<"P", "e", "r", "s", "o", "n", "a", "l">>
UnpaidLeave == <<"U", "n", "p", "a", "i", "d", " ", "L", "e", "a", "v", "e">>

\* One row per (clinician, category); balances in half hours.
leave_df ==
  << [Clinician_Name |-> Ann, Category |-> Sick,              Available_Balance |-> 2],
     [Clinician_Name |-> Ann, Category |-> Personal,          Available_Balance |-> 1],
     [Clinician_Name |-> Ann, Category |-> UnpaidLeave,       Available_Balance |-> 0],
     [Clinician_Name |-> Bo,  Category |-> <<"S", "I", "C", "K">>, Available_Balance |-> 2] >>

\* One row per clinician; rates in eighths of a currency unit per hour.  Bo
\* has no pay rate.
rate_df ==
  << [Clinician_Name |-> <<"A", "N", "N">>, Sick_Pay_Rate |-> 1] >>

payable_categories ==
  { <<"s", "i", "c", "k">>,
    <<"v", "a", "c", "a", "t", "i", "o", "n", " ", "f", "/", "t">>,
    <<"b", "e", "r", "e", "a", "v", "e", "m", "e", "n", "t">> }

unpaid_leave == <<"u", "n", "p", "a", "i", "d", " ", "l", "e", "a", "v", "e">>

-----------------------------------------------------------------------------
(* Pay.                                                                    *)

\* round(x, 2) of x = q / 400 currency units, in cents: the nearest cent,
\* an exact half going to the even cent as Python's round does.
round2(q) ==
  LET c == q \div 4
      r == q % 4
  IN  IF r < 2 THEN c
      ELSE IF r > 2 THEN c + 1
      ELSE IF c % 2 = 0 THEN c ELSE c + 1

\* hourly_rate * hours in 1/400 of a currency unit, from eighths per hour
\* and half hours: (rate / 8) * (hours / 2) * 400.
PayUnits == 25

\* calculate_pay comparing the names as they are written.
\* Lines 46-49, for the rows selected at line 45.
pay_of(row, hours) ==
  IF row # <<>>
    THEN round2(PayUnits * row[1].Sick_Pay_Rate * hours)
    ELSE 0

\* calculate_pay comparing the names as they are written.
calculate_pay_exact_name(clinician, rates, hours) ==
  pay_of(SelectSeq(rates, LAMBDA r : r.Clinician_Name = clinician), hours)

calculate_pay(clinician, rates, hours) ==
  pay_of(SelectSeq(rates,
           LAMBDA r : strip(lower(r.Clinician_Name)) = strip(lower(clinician))),
         hours)

-----------------------------------------------------------------------------
(* The leave log spreadsheet.                                              *)

\* LEAVE_LOG_FILE does not exist.
NoFile == [exists |-> FALSE, rows |-> <<>>]

\* LEAVE_LOG_FILE holding the stored rows.
File(rows) == [exists |-> TRUE, rows |-> rows]

\* datetime.now().date(): a calendar date; the model runs within one day.
Today == 0
now_date == [type |-> "date", day |-> Today]

\* DataFrame.to_excel(index=False): the rows as stored cells.  A date and a
\* timestamp at midnight are stored as the same day number.
to_excel(df) == File([i \in 1..Len(df) |-> [df[i] EXCEPT !.Date = @.day]])

\* pd.read_excel: the stored rows as a DataFrame; a date cell is read as a
\* timestamp at midnight.
read_excel(file) ==
  [i \in 1..Len(file.rows) |->
     [file.rows[i] EXCEPT !.Date = [type |-> "Timestamp", day |-> @]]]

\* balance_after comparing the category as it is written.
balance_after_exact_case(category, hours, balance_before) ==
  IF category # unpaid_leave THEN balance_before - hours ELSE balance_before

\* Line 53.
balance_after_of(category, hours, balance_before) ==
  IF lower(category) # unpaid_leave THEN balance_before - hours ELSE balance_before

\* concat putting the new entry first.
concat_entry_first(old, entry) == <<entry>> \o old

\* Line 68: pd.concat([old, entry], ignore_index=True).
concat(old, entry) == old \o <<entry>>

\* The rows of log_leave up to the point of writing: the entry, and the
\* table `updated` built from the file as it is read now.
updated_with(entry, hours, file) ==
  [pc      |-> "log_leave",
   entry   |-> entry,
   hours   |-> hours,
   updated |-> IF file.exists THEN concat(read_excel(file), entry) ELSE <<entry>>]

log_leave(clinician, category, hours, pay, balance_before, file) ==
  updated_with([Clinician_Name |-> clinician,
                Date           |-> now_date,
                Balance_Before |-> balance_before,
                Balance_After  |-> balance_after_of(category, hours, balance_before),
                Category       |-> category,
                Pay            |-> pay],
               hours, file)

\* Writing the rows the file holds now with the entry added.
written_appended(fr, file) ==
  to_excel((IF file.exists THEN read_excel(file) ELSE <<>>) \o <<fr.entry>>)

\* Line 72: the file becomes the table built from the earlier read, whatever
\* it holds now.
written(fr, file) == to_excel(fr.updated)

-----------------------------------------------------------------------------
(* State.                                                                  *)

\* The browser sessions: one script thread each.
Sessions == {"s1", "s2"}

\* The largest value typed into the hours input, in half hours.
MaxHours == 2
\* Each session runs at most this many successful eligibility checks.
MaxChecks == 2

\* What is typed into "Enter your name:".
NameInputs ==
  { <<>>, <<" ", "A", "M", "N", " ">>, <<"b", "o">>, <<"z", "z">> }

VARIABLES
  active,          \* the sessions that are open
  SCRAPED_POLICY,  \* ai_faq.SCRAPED_POLICY, Unset until ai_faq is imported
  LEAVE_LOG_FILE,  \* data/Leave_log.xlsx: NoFile, or File(its stored rows)
  role,            \* per session: the "Select your role:" radio
  name_input,      \* per session: the name text input
  category,        \* per session: the selected leave category
  requested_hours, \* per session: the hours number input
  session_state,   \* per session: st.session_state
  frame,           \* per session: the locals of a running log_leave, or Idle
  last_run,        \* per session: what the last script run showed
  checked,         \* per session: the request the last successful check evaluated
  n_checks,        \* per session: the number of successful checks so far
  n_logged         \* per session: the number of log_leave calls completed

vars == << active, SCRAPED_POLICY, LEAVE_LOG_FILE, role, name_input, category,
           requested_hours, session_state, frame, last_run, checked, n_checks,
           n_logged >>

widgets == << role, name_input, category, requested_hours >>

Unset == "Unset"
Idle == [pc |-> "idle"]
NoRequest == [clinician |-> None, category |-> <<>>, hours |-> 0, available_balance |-> 0]

\* Lines 90-100 of a run: the values derived from the widgets.
names_list == [i \in 1..Len(leave_df) |-> leave_df[i].Clinician_Name]

Truthy(x) == x # None /\ x # <<>>

\* Line 90, for every text of the name input.
matched_names ==
  [name \in NameInputs |-> IF name # <<>> THEN match_name(name, names_list) ELSE None]

matched_name(name) == matched_names[name]

\* The names line 90 can yield.
Matched == {matched_names[name] : name \in NameInputs} \ {None, <<>>}

\* Line 94.
clinician_rows(matched) ==
  SelectSeq(leave_df,
    LAMBDA r : strip(lower(r.Clinician_Name)) = strip(lower(matched)))

\* Line 95, for every matched name.
category_options ==
  [matched \in Matched |->
     sorted({r.Category : r \in Range(clinician_rows(matched))})]

categories(matched) == category_options[matched]

\* Line 100.
balance_of(record) == IF record # <<>> THEN record[1].Available_Balance ELSE 0

\* Lines 98-100, for every matched name and every category of the table.
balances ==
  [matched \in Matched |->
     [cat \in {r.Category : r \in Range(leave_df)} |->
        balance_of(SelectSeq(clinician_rows(matched),
                     LAMBDA r : lower(r.Category) = lower(cat)))]]

available_balance(matched, cat) == balances[matched][cat]

\* The leave form (category, hours and the two buttons) is rendered.
FormShown(s) == role[s] = "Clinician" /\ Truthy(matched_name(name_input[s]))

\* A session's script runs: ai_faq is imported, no run of it is under way.
CanRun(s) ==
  /\ s \in active
  /\ SCRAPED_POLICY # Unset
  /\ frame[s].pc = "idle"

InitCommon ==
  /\ SCRAPED_POLICY = Unset
  /\ LEAVE_LOG_FILE = NoFile
  /\ role = [s \in Sessions |-> "Clinician"]
  /\ name_input = [s \in Sessions |-> <<>>]
  /\ category = [s \in Sessions |-> <<>>]
  /\ requested_hours = [s \in Sessions |-> 0]
  /\ session_state = [s \in Sessions |->
       [eligible |-> FALSE, pending_pay |-> 0, pending_hours |-> 0,
        pending_category |-> <<>>]]
  /\ frame = [s \in Sessions |-> Idle]
  /\ last_run = [s \in Sessions |-> "none"]
  /\ checked = [s \in Sessions |-> NoRequest]
  /\ n_checks = [s \in Sessions |-> 0]
  /\ n_logged = [s \in Sessions |-> 0]

\* One user at a time.
Init == active = {"s1"} /\ InitCommon

\* Two users at the same time.
InitConcurrent == active = Sessions /\ InitCommon

-----------------------------------------------------------------------------
(* The script runs.  A widget that a run does not render loses its value   *)
(* and starts from its default when it is rendered again; the category     *)
(* selectbox is a new widget when its list of options changes.             *)

Show(s, what) == last_run' = [last_run EXCEPT ![s] = what]

\* main.py line 8 on the first run of the process: importing ai_faq fetches
\* the policy page (ai_faq.py line 20).  The fetch is not guarded: when it
\* fails the import raises and the run ends there, and the next run imports
\* again.
ImportAiFaq(s) ==
  /\ s \in active
  /\ SCRAPED_POLICY = Unset
  /\ \E fetched \in BOOLEAN :
       IF fetched
         THEN SCRAPED_POLICY' = "policy text" /\ Show(s, "rendered")
         ELSE UNCHANGED SCRAPED_POLICY /\ Show(s, "exception")
  /\ UNCHANGED << active, LEAVE_LOG_FILE, widgets, session_state, frame, checked,
                  n_checks, n_logged >>

\* The "Select your role:" radio.  The other view's widgets are not rendered.
SelectRole(s, r) ==
  /\ CanRun(s)
  /\ r # role[s]
  /\ role' = [role EXCEPT ![s] = r]
  /\ name_input' = [name_input EXCEPT ![s] = <<>>]
  /\ category' = [category EXCEPT ![s] = <<>>]
  /\ requested_hours' = [requested_hours EXCEPT ![s] = 0]
  /\ Show(s, IF r = "Admin"
               THEN IF LEAVE_LOG_FILE.exists THEN "log history" ELSE "no log"
               ELSE "rendered")
  /\ UNCHANGED << active, SCRAPED_POLICY, LEAVE_LOG_FILE, session_state, frame,
                  checked, n_checks, n_logged >>

\* A new text in "Enter your name:".
EditName(s, n) ==
  /\ CanRun(s)
  /\ role[s] = "Clinician"
  /\ n # name_input[s]
  /\ \E old \in {matched_name(name_input[s])}, new \in {matched_name(n)} :
         /\ name_input' = [name_input EXCEPT ![s] = n]
         /\ category' = [category EXCEPT ![s] =
              IF ~Truthy(new) THEN <<>>
              ELSE IF Truthy(old) /\ categories(old) = categories(new) THEN @
              ELSE categories(new)[1]]
         /\ requested_hours' = [requested_hours EXCEPT ![s] =
              IF Truthy(new) /\ Truthy(old) THEN @ ELSE 0]
         /\ Show(s, IF Truthy(new) \/ n = <<>> THEN "rendered" ELSE "not found")
  /\ UNCHANGED << active, SCRAPED_POLICY, LEAVE_LOG_FILE, role, session_state, frame,
                  checked, n_checks, n_logged >>

\* Another option of "Select Leave Category:".
SelectCategory(s, c) ==
  /\ CanRun(s)
  /\ FormShown(s)
  /\ c \in Range(categories(matched_name(name_input[s])))
  /\ c # category[s]
  /\ category' = [category EXCEPT ![s] = c]
  /\ Show(s, "rendered")
  /\ UNCHANGED << active, SCRAPED_POLICY, LEAVE_LOG_FILE, role, name_input,
                  requested_hours, session_state, frame, checked, n_checks, n_logged >>

\* Another value of "Enter leave hours to request:" (min_value = 0.0).
EditHours(s, h) ==
  /\ CanRun(s)
  /\ FormShown(s)
  /\ h # requested_hours[s]
  /\ requested_hours' = [requested_hours EXCEPT ![s] = h]
  /\ Show(s, "rendered")
  /\ UNCHANGED << active, SCRAPED_POLICY, LEAVE_LOG_FILE, role, name_input, category,
                  session_state, frame, checked, n_checks, n_logged >>

\* The insufficient branch leaving st.session_state as it is.
insufficient_keep(state) == state

\* Lines 140-142: the insufficient branch.
insufficient(state) == [state EXCEPT !.eligible = FALSE]

\* Lines 120-142: the body of the "Check Eligibility and Pay" button, as the
\* new st.session_state and the message shown.
check_clean(state, matched, cat, category_clean, hours, balance) ==
  IF category_clean = unpaid_leave
    THEN [state |-> [eligible |-> TRUE, pending_pay |-> 0,
                     pending_hours |-> hours, pending_category |-> cat],
          shown |-> "unpaid"]
  ELSE IF hours <= balance
    THEN IF category_clean \in payable_categories
           THEN [state |-> [eligible |-> TRUE,
                            pending_pay |-> calculate_pay(matched, rate_df, hours),
                            pending_hours |-> hours, pending_category |-> cat],
                 shown |-> "eligible"]
           ELSE [state |-> [eligible |-> TRUE, pending_pay |-> 0,
                            pending_hours |-> hours, pending_category |-> cat],
                 shown |-> "no payment"]
  ELSE [state |-> insufficient(state),
        shown |-> "insufficient"]

check_eligibility(state, matched, cat, hours, balance) ==
  check_clean(state, matched, cat, lower(cat), hours, balance)

\* The check button rendered whatever the hours.
CheckShown_any_hours(s) == FormShown(s)

\* The check button is rendered when the form is and requested_hours > 0
\* (line 118).
CheckShown(s) == FormShown(s) /\ requested_hours[s] > 0

\* A click on "Check Eligibility and Pay".
CheckEligibility(s) ==
  /\ CanRun(s)
  /\ CheckShown(s)
  /\ n_checks[s] < MaxChecks
  /\ \E matched \in {matched_name(name_input[s])} :
     \E balance \in {available_balance(matched, category[s])} :
     \E res \in {check_eligibility(session_state[s], matched, category[s],
                                   requested_hours[s], balance)} :
         /\ session_state' = [session_state EXCEPT ![s] = res.state]
         /\ Show(s, res.shown)
         /\ IF res.shown # "insufficient"
              THEN /\ checked' = [checked EXCEPT ![s] =
                        [clinician |-> matched, category |-> category[s],
                         hours |-> requested_hours[s], available_balance |-> balance]]
                   /\ n_checks' = [n_checks EXCEPT ![s] = @ + 1]
              ELSE UNCHANGED << checked, n_checks >>
  /\ UNCHANGED << active, SCRAPED_POLICY, LEAVE_LOG_FILE, widgets, frame, n_logged >>

\* The confirm button is rendered when the form is and eligible is set
\* (line 144).
ConfirmShown(s) == FormShown(s) /\ session_state[s].eligible

\* Lines 146-152: the arguments of the log_leave call.
confirm_call(matched, state, balance, file) ==
  log_leave(matched, state.pending_category, state.pending_hours, state.pending_pay,
            balance, file)

\* A click on "Confirm and Log Leave", up to log_leave reading the log
\* (lines 145-152 and 52-70).
ConfirmRead(s) ==
  /\ CanRun(s)
  /\ ConfirmShown(s)
  /\ \E matched \in {matched_name(name_input[s])} :
         frame' = [frame EXCEPT ![s] =
           confirm_call(matched, session_state[s],
                        available_balance(matched, category[s]), LEAVE_LOG_FILE)]
  /\ UNCHANGED << active, SCRAPED_POLICY, LEAVE_LOG_FILE, widgets, session_state,
                  last_run, checked, n_checks, n_logged >>

\* The handler ending without the reset.
after_confirm_no_reset(state) == state

\* Line 154: the state after the log is written.
after_confirm(state) == [state EXCEPT !.eligible = FALSE]

\* log_leave writes the table back, and the handler ends (lines 72, 153-154).
ConfirmWrite(s) ==
  /\ s \in active
  /\ frame[s].pc = "log_leave"
  /\ LEAVE_LOG_FILE' = written(frame[s], LEAVE_LOG_FILE)
  /\ session_state' = [session_state EXCEPT ![s] = after_confirm(@)]
  /\ frame' = [frame EXCEPT ![s] = Idle]
  /\ n_logged' = [n_logged EXCEPT ![s] = @ + 1]
  /\ Show(s, "logged")
  /\ UNCHANGED << active, SCRAPED_POLICY, widgets, checked, n_checks >>

\* A click on the confirm button that the logging run left on the page:
\* eligible is false in this run, the button is not rendered and nothing is
\* logged.
ConfirmStale(s) ==
  /\ CanRun(s)
  /\ FormShown(s)
  /\ last_run[s] = "logged"
  /\ ~session_state[s].eligible
  /\ Show(s, "rendered")
  /\ UNCHANGED << active, SCRAPED_POLICY, LEAVE_LOG_FILE, widgets, session_state,
                  frame, checked, n_checks, n_logged >>

\* How a script run ends: the page is rendered, or an exception left the
\* script.
RunEnd(call) == IF call.raised THEN "exception" ELSE "rendered"

\* ai_faq.ask_policy_faq (lines 35-39): the provider's answer, or its error
\* caught and returned as a string.
ask_policy_faq(answered) ==
  [raised |-> FALSE,
   text   |-> IF answered THEN "answer" ELSE "Error generating answer"]

\* A question typed into the FAQ tab (lines 167-172).
AskFaq(s) ==
  /\ CanRun(s)
  /\ role[s] = "Clinician"
  /\ \E answered \in BOOLEAN : Show(s, RunEnd(ask_policy_faq(answered)))
  /\ UNCHANGED << active, SCRAPED_POLICY, LEAVE_LOG_FILE, widgets, session_state,
                  frame, checked, n_checks, n_logged >>

\* Lines 231-236: model.generate_content is called unguarded; its error
\* leaves the script as an exception.
admin_insights(answered) ==
  IF answered THEN [raised |-> FALSE, text |-> "answer"]
              ELSE [raised |-> TRUE, text |-> ""]

\* A question typed into the admin's "Gemini AI Insights" tab.
AdminAsk(s) ==
  /\ CanRun(s)
  /\ role[s] = "Admin"
  /\ \E answered \in BOOLEAN : Show(s, RunEnd(admin_insights(answered)))
  /\ UNCHANGED << active, SCRAPED_POLICY, LEAVE_LOG_FILE, widgets, session_state,
                  frame, checked, n_checks, n_logged >>

Next ==
  \E s \in Sessions :
    \/ ImportAiFaq(s)
    \/ \E r \in {"Clinician", "Admin"} : SelectRole(s, r)
    \/ \E n \in NameInputs : EditName(s, n)
    \/ \E c \in {r.Category : r \in Range(leave_df)} : SelectCategory(s, c)
    \/ \E h \in 0..MaxHours : EditHours(s, h)
    \/ CheckEligibility(s)
    \/ ConfirmRead(s)
    \/ ConfirmWrite(s)
    \/ ConfirmStale(s)
    \/ AskFaq(s)
    \/ AdminAsk(s)

\* One session: script runs, and so log_leave calls, follow one another.
Spec == Init /\ [][Next]_vars

\* Two users each filing one request for the category first selected.
NextConcurrent ==
  \E s \in Sessions :
    \/ ImportAiFaq(s)
    \/ \E n \in NameInputs \ {<<>>} : EditName(s, n)
    \/ \E h \in 1..MaxHours : EditHours(s, h)
    \/ CheckEligibility(s) /\ n_checks[s] = 0
    \/ ConfirmRead(s)
    \/ ConfirmWrite(s)

\* Two sessions, whose script runs interleave.
SpecConcurrent == InitConcurrent /\ [][NextConcurrent]_vars

-----------------------------------------------------------------------------
(* Properties.                                                             *)

\* The step in which session s's log_leave writes the file.
Writes(s) == frame[s].pc = "log_leave" /\ frame'[s].pc = "idle"

\* The log as the program reads it; no file reads as no rows.
LogRows(file) == IF file.exists THEN read_excel(file) ELSE <<>>

\* The row that reading the log gives for an entry log_leave built.
AsRead(entry) == [entry EXCEPT !.Date = [type |-> "Timestamp", day |-> @.day]]

\* C1: a check asking more hours than the available balance of the selected
\* row, for a category other than unpaid leave, clears eligible, writes
\* nothing to the log and leaves the confirm button unrendered; a log_leave
\* call starts only in a session whose eligible is set, and the log file
\* changes only in the writing step of a log_leave call.
C1_InsufficientBalance ==
  [][\A s \in Sessions :
       /\ ( /\ CheckEligibility(s)
            /\ lower(category[s]) # unpaid_leave
            /\ requested_hours[s]
                 > available_balance(matched_name(name_input[s]), category[s]) )
          => /\ ~session_state'[s].eligible
             /\ LEAVE_LOG_FILE' = LEAVE_LOG_FILE
             /\ frame'[s].pc = "idle"
             /\ ~(ConfirmShown(s))'
       /\ (frame[s].pc = "idle" /\ frame'[s].pc = "log_leave")
          => session_state[s].eligible
       /\ (LEAVE_LOG_FILE' # LEAVE_LOG_FILE) => \E t \in Sessions : Writes(t)
    ]_vars

\* A failed check has discarded the request of an earlier successful one.
C1_Witness ==
  /\ last_run["s1"] = "insufficient"
  /\ n_checks["s1"] = 1
  /\ n_logged["s1"] = 0
  /\ session_state["s1"].pending_hours > 0
  /\ ~session_state["s1"].eligible

\* C2: the entry a log_leave call writes has Balance After = Balance Before
\* - hours when its category is not "unpaid leave" in any letter case, and
\* Balance After = Balance Before when it is.
C2_BalanceAfter ==
  [][\A s \in Sessions :
       Writes(s) =>
         \E e \in {LEAVE_LOG_FILE'.rows[Len(LEAVE_LOG_FILE'.rows)]} :
           e.Balance_After =
             IF lower(e.Category) = unpaid_leave
               THEN e.Balance_Before
               ELSE e.Balance_Before - frame[s].hours
    ]_vars

\* The log holds an unpaid entry and an entry that drew the balance down.
C2_Witness ==
  \E i, j \in 1..Len(LEAVE_LOG_FILE.rows) :
    /\ lower(LEAVE_LOG_FILE.rows[i].Category) = unpaid_leave
    /\ LEAVE_LOG_FILE.rows[i].Balance_After = LEAVE_LOG_FILE.rows[i].Balance_Before
    /\ lower(LEAVE_LOG_FILE.rows[j].Category) # unpaid_leave
    /\ LEAVE_LOG_FILE.rows[j].Balance_After < LEAVE_LOG_FILE.rows[j].Balance_Before

\* The rows of the rate table for a clinician, names compared without case
\* and surrounding blanks.
RateRows(clinician) ==
  SelectSeq(rate_df, LAMBDA r : strip(lower(r.Clinician_Name)) = strip(lower(clinician)))

\* cents is q / 4 rounded to the nearest whole, a half to the even one.
IsRounded(cents, q) ==
  /\ 4 * cents - q \in -2..2
  /\ (4 * cents - q \in {-2, 2}) => cents % 2 = 0

\* pay is the pay of request req as C3 states it.
PayAsStated(req, pay) ==
  IF /\ lower(req.category) # unpaid_leave
     /\ lower(req.category) \in payable_categories
     /\ RateRows(req.clinician) # <<>>
    THEN IsRounded(pay, PayUnits * RateRows(req.clinician)[1].Sick_Pay_Rate * req.hours)
    ELSE pay = 0

\* C3: after a successful check the pending pay, and the Pay of the entry
\* logged on confirm, is round(hourly_rate x hours, 2) of the checked request
\* when its category is payable and its clinician has a rate, and 0 when the
\* category is unpaid leave or not payable, or the clinician has no rate.
C3_Pay ==
  \A s \in Sessions :
    /\ session_state[s].eligible
         => PayAsStated(checked[s], session_state[s].pending_pay)
    /\ frame[s].pc = "log_leave"
         => PayAsStated(checked[s], frame[s].entry.Pay)

\* An entry is being logged whose pay, 0.125 for one hour, was rounded to
\* 0.12.
C3_Witness ==
  /\ frame["s1"].pc = "log_leave"
  /\ checked["s1"].hours = 2
  /\ frame["s1"].entry.Pay = 12

\* C4: every log_leave call of a session consumes a successful check of its
\* own: the calls completed, plus one while a request is pending, never
\* exceed the successful checks, and a call runs only on a pending request.
C4_ConsumedOnce ==
  \A s \in Sessions :
    /\ n_logged[s] + (IF session_state[s].eligible THEN 1 ELSE 0) <= n_checks[s]
    /\ frame[s].pc = "log_leave" => session_state[s].eligible

\* Two successful checks, one of them superseded or discarded, one logged.
C4_Witness ==
  /\ n_checks["s1"] = 2
  /\ n_logged["s1"] = 1
  /\ last_run["s1"] = "logged"
  /\ ~session_state["s1"].eligible

\* C5: the matched name, and the Clinician Name of the entry logged, is a
\* clinician name as the balance table writes it.
C5_CanonicalName ==
  \A s \in Sessions :
    /\ FormShown(s) => matched_name(name_input[s]) \in Range(names_list)
    /\ frame[s].pc = "log_leave"
         => frame[s].entry.Clinician_Name \in Range(names_list)

\* C6: with log_leave calls one after another, each call leaves the log as
\* it was with one row added at the end, the row of its entry; no file
\* counts as no rows; no other step changes the log.
C6_AppendOnly ==
  [][/\ \A s \in Sessions :
          Writes(s) =>
            /\ Len(LogRows(LEAVE_LOG_FILE')) = Len(LogRows(LEAVE_LOG_FILE)) + 1
            /\ SubSeq(LogRows(LEAVE_LOG_FILE'), 1, Len(LogRows(LEAVE_LOG_FILE)))
                 = LogRows(LEAVE_LOG_FILE)
            /\ LogRows(LEAVE_LOG_FILE')[Len(LogRows(LEAVE_LOG_FILE'))]
                 = AsRead(frame[s].entry)
     /\ (\A s \in Sessions : ~Writes(s)) => LEAVE_LOG_FILE' = LEAVE_LOG_FILE
    ]_vars

\* The log holds two different rows.
C6_Witness ==
  /\ Len(LEAVE_LOG_FILE.rows) = 2
  /\ LEAVE_LOG_FILE.rows[1] # LEAVE_LOG_FILE.rows[2]

\* C7: the write of a log_leave call replaces the log by the rows the call
\* read earlier plus its entry, whatever the file holds by then; the log
\* never holds more rows than calls were completed.
C7_LastWriterWins ==
  [][/\ \A s \in Sessions :
          Writes(s) =>
            LogRows(LEAVE_LOG_FILE')
              = [i \in 1..Len(frame[s].updated) |-> AsRead(frame[s].updated[i])]
     /\ Len(LEAVE_LOG_FILE'.rows) <= n_logged'["s1"] + n_logged'["s2"]
    ]_vars

\* Both sessions were told their leave was logged, and the log holds one row.
C7_Witness ==
  /\ last_run["s1"] = "logged"
  /\ last_run["s2"] = "logged"
  /\ n_logged["s1"] = 1
  /\ n_logged["s2"] = 1
  /\ Len(LEAVE_LOG_FILE.rows) = 1

\* C8: whenever confirm is enabled the pending hours are positive, and so
\* are the hours of every log_leave call.
C8_PositiveHours ==
  \A s \in Sessions :
    /\ session_state[s].eligible => session_state[s].pending_hours > 0
    /\ frame[s].pc = "log_leave" => frame[s].hours > 0

\* Confirm is offered after the hours input went back to 0.
C8_Witness ==
  /\ ConfirmShown("s1")
  /\ requested_hours["s1"] = 0
  /\ session_state["s1"].pending_hours > 0

\* C9: no script run ends in an exception: a failure of the provider or of
\* the policy page fetch is shown as a message.
C9_NoFatalFailure == \A s \in Sessions : last_run[s] # "exception"

\* C10: the entry a confirm logs is the request the enabling check
\* evaluated: its clinician, category, hours and available balance; and an
\* entry of a category other than unpaid leave has hours <= Balance Before.
C10_LoggedIsChecked ==
  \A s \in Sessions :
    frame[s].pc = "log_leave" =>
      /\ frame[s].entry.Clinician_Name = checked[s].clinician
      /\ frame[s].entry.Category = checked[s].category
      /\ frame[s].hours = checked[s].hours
      /\ frame[s].entry.Balance_Before = checked[s].available_balance
      /\ lower(frame[s].entry.Category) # unpaid_leave
           => frame[s].hours <= frame[s].entry.Balance_Before

====
